---- MODULE Spec2Model ----
(***************************************************************************)
(* JDL master-data synchronisation (JdlMasterSyncService.sync_from_csv)    *)
(* as a state machine over the player collection of the document store.   *)
(*                                                                         *)
(* Time is counted in whole hours.  A datetime is a wall-clock reading, a  *)
(* flag telling whether it carries a UTC offset, and that offset.          *)
(***************************************************************************)
EXTENDS Integers, Sequences, FiniteSets, TLC

\* ------------------------------------------------------------------ bounds
\* Longest snapshot (data rows after the header).
MaxRows == 2
\* Largest wall-clock reading of a timestamp written in a snapshot.
MaxClock == 2

\* ----------------------------------------------------------- Python values
None == [type |-> "NoneType"]
SERVER_TIMESTAMP == [type |-> "Sentinel"]
Datetime(clock, aware, off) ==
    [type |-> "datetime", clock |-> clock, aware |-> aware, off |-> off]

isinstance_datetime(v) == v.type = "datetime"

\* bool(v) of the values a stored marker can hold: None is falsy, a datetime
\* and a sentinel object are truthy.
Truthy(v) == v.type # "NoneType"

\* The instant a timezone-aware datetime denotes (UTC).
utc(d) == d.clock - d.off

\* a >= b of two datetimes of the same awareness: aware values are compared
\* as instants, naive values by their wall-clock reading.
datetime_ge(a, b) ==
    IF a.aware /\ b.aware THEN utc(a) >= utc(b) ELSE a.clock >= b.clock

\* ------------------------------------------------------------ CSV cells
\* The text of a last_updated cell: empty, not a date, or an ISO-8601 date
\* with the suffix it was written with.
EmptyCell == [form |-> "empty"]
GarbageCell == [form |-> "garbage"]
IsoCell(clock, suffix) == [form |-> "iso", clock |-> clock, suffix |-> suffix]

Suffixes == {"", "Z", "+01:00"}

\* last_updated_str.replace('Z', '+00:00')
replace_Z(cell) ==
    IF cell.form = "iso" /\ cell.suffix = "Z"
    THEN [cell EXCEPT !.suffix = "+00:00"]
    ELSE cell

\* datetime.fromisoformat: defined on ISO texts only.
fromisoformat_ok(cell) == cell.form = "iso" /\ cell.suffix \in {"", "+00:00", "+01:00"}
fromisoformat(cell) ==
    CASE cell.suffix = "" -> Datetime(cell.clock, FALSE, 0)
      [] cell.suffix = "+00:00" -> Datetime(cell.clock, TRUE, 0)
      [] cell.suffix = "+01:00" -> Datetime(cell.clock, TRUE, 1)

\* int(text): the decimal literals the snapshots use; any other text raises.
IntLiterals == ("10" :> 10) @@ ("5" :> 5) @@ ("0" :> 0) @@ ("-5" :> -5)
int_ok(text) == text \in DOMAIN IntLiterals
int(text) == IntLiterals[text]

\* The characters of the jdl_id texts the snapshots and the store use.
Chars(text) ==
    CASE text = "JDL000001" -> <<"J", "D", "L", "0", "0", "0", "0", "0", "1">>
      [] text = "JDL000002" -> <<"J", "D", "L", "0", "0", "0", "0", "0", "2">>
      [] text = "JDLINVALID" -> <<"J", "D", "L", "I", "N", "V", "A", "L", "I", "D">>
      [] text = "JDL000001\n" -> <<"J", "D", "L", "0", "0", "0", "0", "0", "1", "\n">>
      [] OTHER -> <<>>

Digits == {"0", "1", "2", "3", "4", "5", "6", "7", "8", "9"}

\* re.match(r'^JDL\d{6}$', v): '$' also matches before one trailing newline.
validate_jdl_id(v) ==
    LET c == Chars(v) IN
    /\ Len(c) \in {9, 10}
    /\ c[1] = "J" /\ c[2] = "D" /\ c[3] = "L"
    /\ \A i \in 4..9 : c[i] \in Digits
    /\ Len(c) = 10 => c[10] = "\n"

valid_classes == {"A", "B", "C", "D", "E"}
validate_class(v) == v \in valid_classes

\* PlayerBase(**player_data): every field validator must pass; the failures
\* of one row are gathered into a single ValidationError.
PlayerBase_ok(player_data) ==
    /\ validate_jdl_id(player_data.jdl_id)
    /\ player_data.participation_count >= 0
    /\ validate_class(player_data.current_class)

\* --------------------------------------------------------- the parse loop
\* One error string; line is 0 for an error that belongs to no row.
Error(kind, line) == [kind |-> kind, line |-> line]

\* ParseRow that counts the lines from the header: line_num = i + 1.
ParseRow_line(row, i) ==
    LET line_num == i + 1
        bad == [ok |-> FALSE, error |-> Error("validation", line_num)]
    IN  IF ~int_ok(row.participation_count) THEN bad
        ELSE LET player_data == [name |-> row.player_name,
                                 jdl_id |-> row.jdl_id,
                                 team_id |-> None,
                                 participation_count |-> int(row.participation_count),
                                 current_class |-> row.current_class]
             IN  IF ~PlayerBase_ok(player_data) THEN bad
                 ELSE IF row.last_updated.form = "empty" THEN bad
                 ELSE IF ~fromisoformat_ok(replace_Z(row.last_updated)) THEN bad
                 ELSE [ok |-> TRUE,
                       entry |-> [jdl_id |-> player_data.jdl_id,
                                  data |-> player_data,
                                  last_updated |-> fromisoformat(replace_Z(row.last_updated)),
                                  line_num |-> line_num]]

\* The body of the row loop for data row i (counted from 0).
ParseRow(row, i) ==
    LET line_num == i + 2
        bad == [ok |-> FALSE, error |-> Error("validation", line_num)]
    IN  IF ~int_ok(row.participation_count) THEN bad
        ELSE LET player_data == [name |-> row.player_name,
                                 jdl_id |-> row.jdl_id,
                                 team_id |-> None,
                                 participation_count |-> int(row.participation_count),
                                 current_class |-> row.current_class]
             IN  IF ~PlayerBase_ok(player_data) THEN bad
                 ELSE IF row.last_updated.form = "empty" THEN bad
                 ELSE IF ~fromisoformat_ok(replace_Z(row.last_updated)) THEN bad
                 ELSE [ok |-> TRUE,
                       entry |-> [jdl_id |-> player_data.jdl_id,
                                  data |-> player_data,
                                  last_updated |-> fromisoformat(replace_Z(row.last_updated)),
                                  line_num |-> line_num]]

\* DictSet that keeps the value a key already has.
DictSet_first(items, entry) ==
    IF \E k \in 1..Len(items) : items[k].jdl_id = entry.jdl_id
    THEN items
    ELSE Append(items, entry)

\* master_data[key] = entry on a dict kept as the sequence of its items in
\* insertion order: an existing key keeps its place and takes the new value.
DictSet(items, entry) ==
    IF \E k \in 1..Len(items) : items[k].jdl_id = entry.jdl_id
    THEN [k \in 1..Len(items) |->
             IF items[k].jdl_id = entry.jdl_id THEN entry ELSE items[k]]
    ELSE Append(items, entry)

\* ParseRows that stops reading at the first row that fails validation.
RECURSIVE ParseRows_break(_, _, _)
ParseRows_break(rows, i, acc) ==
    IF i >= Len(rows) THEN acc
    ELSE LET r == ParseRow(rows[i + 1], i) IN
         IF r.ok
         THEN ParseRows_break(rows, i + 1, [acc EXCEPT !.master_data = DictSet(@, r.entry)])
         ELSE [acc EXCEPT !.errors = Append(@, r.error), !.skipped_count = @ + 1]

\* The row loop from row i on: a valid row enters master_data, an invalid one
\* adds an error and a skip, and the loop goes on.
RECURSIVE ParseRows(_, _, _)
ParseRows(rows, i, acc) ==
    IF i >= Len(rows) THEN acc
    ELSE LET r == ParseRow(rows[i + 1], i) IN
         ParseRows(rows, i + 1,
            IF r.ok
            THEN [acc EXCEPT !.master_data = DictSet(@, r.entry)]
            ELSE [acc EXCEPT !.errors = Append(@, r.error),
                             !.skipped_count = @ + 1])

\* ------------------------------------------------------- the player store
\* The order in which stream() yields the documents of the collection.
DocOrder == <<"doc1", "doc2">>

RECURSIVE StreamOf(_, _)
StreamOf(db, order) ==
    IF order = <<>> THEN <<>>
    ELSE IF Head(order) \in DOMAIN db
         THEN <<Head(order)>> \o StreamOf(db, Tail(order))
         ELSE StreamOf(db, Tail(order))

\* NormalizeMarker that leaves every marker as the store returned it.
NormalizeMarker_keep(player_data) == player_data

\* The loop body of the load: the marker of a streamed document is kept when
\* it is a datetime and becomes None when it is anything else.
NormalizeMarker(player_data) ==
    IF "last_updated_by_master" \notin DOMAIN player_data THEN player_data
    ELSE IF player_data.last_updated_by_master.type = "Sentinel"
         THEN [player_data EXCEPT !.last_updated_by_master = None]
    ELSE IF isinstance_datetime(player_data.last_updated_by_master)
         THEN player_data
    ELSE [player_data EXCEPT !.last_updated_by_master = None]

\* LoadPlayers that files a document without jdl_id under a key loaded before
\* it (the jdl_id left over from an earlier document of the stream).
RECURSIVE LoadPlayers_stalekey(_, _, _)
LoadPlayers_stalekey(db, docs, acc) ==
    IF docs = <<>> THEN acc
    ELSE LET id == Head(docs)
             player_data == db[id]
         IN  LoadPlayers_stalekey(db, Tail(docs),
                IF "jdl_id" \in DOMAIN player_data
                THEN (player_data.jdl_id :> [id |-> id, data |-> NormalizeMarker(player_data)])
                     @@ acc
                ELSE IF DOMAIN acc # {}
                     THEN ((CHOOSE key \in DOMAIN acc : TRUE) :>
                              [id |-> id, data |-> NormalizeMarker(player_data)]) @@ acc
                     ELSE acc)

\* existing_players, keyed by jdl_id: a later document of the stream takes
\* the key of an earlier one, a document without jdl_id is left out.
RECURSIVE LoadPlayers(_, _, _)
LoadPlayers(db, docs, acc) ==
    IF docs = <<>> THEN acc
    ELSE LET id == Head(docs)
             player_data == db[id]
         IN  LoadPlayers(db, Tail(docs),
                IF DOMAIN player_data # {} /\ "jdl_id" \in DOMAIN player_data
                THEN (player_data.jdl_id :> [id |-> id, data |-> NormalizeMarker(player_data)])
                     @@ acc
                ELSE acc)

\* get that finds no marker on any record.
get_marker_none(player_data) == None

\* existing_player_data.get("last_updated_by_master")
get_marker(player_data) ==
    IF "last_updated_by_master" \in DOMAIN player_data
    THEN player_data.last_updated_by_master
    ELSE None

\* ------------------------------------------------------ the reconciliation
\* should_update that skips a record whose marker is None.
should_update_none(firestore_last_updated_by_master, master_last_updated) ==
    IF Truthy(firestore_last_updated_by_master)
       /\ isinstance_datetime(firestore_last_updated_by_master)
    THEN IF master_last_updated.aware = firestore_last_updated_by_master.aware
         THEN ~datetime_ge(firestore_last_updated_by_master, master_last_updated)
         ELSE TRUE
    ELSE FALSE

\* should_update with two aware datetimes compared by their wall-clock
\* readings, the offsets ignored.
should_update_clock(firestore_last_updated_by_master, master_last_updated) ==
    IF Truthy(firestore_last_updated_by_master)
       /\ isinstance_datetime(firestore_last_updated_by_master)
    THEN IF master_last_updated.aware = firestore_last_updated_by_master.aware
         THEN ~(firestore_last_updated_by_master.clock >= master_last_updated.clock)
         ELSE TRUE
    ELSE TRUE

\* should_update with > in place of >=: an equal marker is written again.
should_update_strict(firestore_last_updated_by_master, master_last_updated) ==
    IF Truthy(firestore_last_updated_by_master)
       /\ isinstance_datetime(firestore_last_updated_by_master)
    THEN IF master_last_updated.aware = firestore_last_updated_by_master.aware
         THEN datetime_ge(master_last_updated, firestore_last_updated_by_master)
         ELSE TRUE
    ELSE TRUE

\* should_update that skips a pair of which only one datetime has an offset.
should_update_mixed(firestore_last_updated_by_master, master_last_updated) ==
    IF Truthy(firestore_last_updated_by_master)
       /\ isinstance_datetime(firestore_last_updated_by_master)
    THEN IF master_last_updated.aware = firestore_last_updated_by_master.aware
         THEN ~datetime_ge(firestore_last_updated_by_master, master_last_updated)
         ELSE FALSE
    ELSE TRUE

\* should_update that never skips.
should_update_always(firestore_last_updated_by_master, master_last_updated) == TRUE

\* should_update for a stored marker and the master row's last_updated.
should_update(firestore_last_updated_by_master, master_last_updated) ==
    IF Truthy(firestore_last_updated_by_master)
       /\ isinstance_datetime(firestore_last_updated_by_master)
    THEN LET master_is_aware == master_last_updated.aware
             firestore_is_aware == firestore_last_updated_by_master.aware
         IN  IF master_is_aware /\ firestore_is_aware
             THEN ~datetime_ge(firestore_last_updated_by_master, master_last_updated)
             ELSE IF ~master_is_aware /\ ~firestore_is_aware
             THEN ~datetime_ge(firestore_last_updated_by_master, master_last_updated)
             ELSE TRUE
    ELSE TRUE

\* update_data with the marker taken from the sync time.
update_data_synctime(master_info, sync_time) ==
    [name |-> master_info.data.name,
     participation_count |-> master_info.data.participation_count,
     current_class |-> master_info.data.current_class,
     last_updated_by_master |-> sync_time,
     updated_at |-> sync_time]

\* update_data that reads the wall clock anew for every write, the clock
\* having advanced by the time the row of that line is reached.
update_data_rowclock(master_info, sync_time) ==
    [name |-> master_info.data.name,
     participation_count |-> master_info.data.participation_count,
     current_class |-> master_info.data.current_class,
     last_updated_by_master |-> master_info.last_updated,
     updated_at |-> Datetime(sync_time.clock + master_info.line_num, FALSE, 0)]

\* The write staged for a matched record.
update_data(master_info, sync_time) ==
    [name |-> master_info.data.name,
     participation_count |-> master_info.data.participation_count,
     current_class |-> master_info.data.current_class,
     last_updated_by_master |-> master_info.last_updated,
     updated_at |-> sync_time]

\* BatchUpdate that stages a full overwrite of the document.
BatchUpdate_set(ref, data) == [op |-> "set", ref |-> ref, data |-> data]

\* One operation staged on the write batch.
BatchUpdate(ref, data) == [op |-> "update", ref |-> ref, data |-> data]

\* ReconcileOne that creates a document for a jdl_id the store does not hold.
ReconcileOne_create(acc, master_info, existing_players, sync_time) ==
    IF master_info.jdl_id \in DOMAIN existing_players
    THEN LET existing_player_info == existing_players[master_info.jdl_id] IN
         IF ~should_update(get_marker(existing_player_info.data), master_info.last_updated)
         THEN [acc EXCEPT !.skipped_count = @ + 1]
         ELSE [acc EXCEPT
                 !.batch = Append(@, BatchUpdate(existing_player_info.id,
                                                 update_data(master_info, sync_time))),
                 !.updated_count = @ + 1]
    ELSE [acc EXCEPT
            !.batch = Append(@, [op |-> "set", ref |-> "doc3",
                                 data |-> update_data(master_info, sync_time)]),
            !.updated_count = @ + 1]

\* ReconcileOne that stages a write only while the batch is still empty and
\* skips every later record.
ReconcileOne_once(acc, master_info, existing_players, sync_time) ==
    IF master_info.jdl_id \in DOMAIN existing_players
    THEN LET existing_player_info == existing_players[master_info.jdl_id] IN
         IF ~should_update(get_marker(existing_player_info.data), master_info.last_updated)
            \/ acc.batch # <<>>
         THEN [acc EXCEPT !.skipped_count = @ + 1]
         ELSE [acc EXCEPT
                 !.batch = Append(@, BatchUpdate(existing_player_info.id,
                                                 update_data(master_info, sync_time))),
                 !.updated_count = @ + 1]
    ELSE [acc EXCEPT !.skipped_count = @ + 1]

\* ReconcileOne that passes over an unmatched jdl_id without counting it.
ReconcileOne_nocount(acc, master_info, existing_players, sync_time) ==
    IF master_info.jdl_id \in DOMAIN existing_players
    THEN LET existing_player_info == existing_players[master_info.jdl_id] IN
         IF ~should_update(get_marker(existing_player_info.data), master_info.last_updated)
         THEN [acc EXCEPT !.skipped_count = @ + 1]
         ELSE [acc EXCEPT
                 !.batch = Append(@, BatchUpdate(existing_player_info.id,
                                                 update_data(master_info, sync_time))),
                 !.updated_count = @ + 1]
    ELSE acc

\* The body of the reconciliation loop for one item of master_data.
ReconcileOne(acc, master_info, existing_players, sync_time) ==
    IF master_info.jdl_id \in DOMAIN existing_players
    THEN LET existing_player_info == existing_players[master_info.jdl_id] IN
         IF ~should_update(get_marker(existing_player_info.data), master_info.last_updated)
         THEN [acc EXCEPT !.skipped_count = @ + 1]
         ELSE [acc EXCEPT
                 !.batch = Append(@, BatchUpdate(existing_player_info.id,
                                                 update_data(master_info, sync_time))),
                 !.updated_count = @ + 1]
    ELSE [acc EXCEPT !.skipped_count = @ + 1]

RECURSIVE Reconcile(_, _, _, _)
Reconcile(acc, items, existing_players, sync_time) ==
    IF items = <<>> THEN acc
    ELSE Reconcile(ReconcileOne(acc, Head(items), existing_players, sync_time),
                   Tail(items), existing_players, sync_time)

\* ------------------------------------------------------------- the commit
\* update() overwrites the named fields of an existing document and keeps
\* the others; set() writes the document whether it exists or not.
ApplyOp(db, w) ==
    IF w.op = "update"
    THEN [db EXCEPT ![w.ref] = w.data @@ @]
    ELSE (w.ref :> w.data) @@ db

RECURSIVE ApplyBatch(_, _)
ApplyBatch(db, batch) ==
    IF batch = <<>> THEN db ELSE ApplyBatch(ApplyOp(db, Head(batch)), Tail(batch))

\* A batch can commit only when every document it updates exists.
Committable(db, batch) ==
    \A k \in 1..Len(batch) : batch[k].op = "update" => batch[k].ref \in DOMAIN db

\* ------------------------------------------------------ sync_from_csv
\* The snapshot file: missing, or readable up to the rows it yields; a
\* broken file raises a read error after yielding them.
MissingFile == [exists |-> FALSE, rows |-> <<>>, broken |-> FALSE]
CsvFile(rows, broken) == [exists |-> TRUE, rows |-> rows, broken |-> broken]

\* The locals of a finished call, what became of its calls on the store
\* (stream and commit: "not_called", "ok" or "raised"; batch_calls counts
\* db.batch()) and the tuple it returned.
Returned(csv_file, parsed, existing_players, staged, sync_time, calls, ret) ==
    [pc |-> "returned",
     csv_file |-> csv_file,
     master_data |-> parsed.master_data,
     existing_players |-> existing_players,
     batch |-> staged,
     sync_time |-> sync_time,
     stream |-> calls[1],
     batch_calls |-> calls[2],
     commit |-> calls[3],
     ret |-> ret]

Result(updated_count, skipped_count, errors) ==
    [updated_count |-> updated_count, skipped_count |-> skipped_count, errors |-> errors]

NoStoreCall == <<"not_called", 0, "not_called">>

\* The missing file reported, and the run going on to load the store.
OnFileNotFound_fallthrough(csv_file, db) ==
    [db |-> db,
     run |-> Returned(csv_file, [master_data |-> <<>>],
                      LoadPlayers(db, StreamOf(db, DocOrder), <<>>), <<>>, None,
                      <<"ok", 1, "not_called">>,
                      Result(0, 0, <<Error("file_not_found", 0)>>))]

\* except FileNotFoundError: return 0, 0, errors
OnFileNotFound(csv_file, db) ==
    [db |-> db,
     run |-> Returned(csv_file, [master_data |-> <<>>], <<>>, <<>>, None, NoStoreCall,
                      Result(0, 0, <<Error("file_not_found", 0)>>))]

\* except Exception around the read: return 0, skipped_count, errors
OnReadError(csv_file, db, parsed) ==
    [db |-> db,
     run |-> Returned(csv_file, parsed, <<>>, <<>>, None, NoStoreCall,
                      Result(0, parsed.skipped_count,
                             Append(parsed.errors, Error("csv_read", 0))))]

\* The run without a valid row going on to read the store before it returns.
OnNoMasterData_load(csv_file, db, parsed) ==
    [db |-> db,
     run |-> Returned(csv_file, parsed, LoadPlayers(db, StreamOf(db, DocOrder), <<>>),
                      <<>>, None, <<"ok", 1, "not_called">>,
                      Result(0, parsed.skipped_count, parsed.errors))]

\* if not master_data: return 0, skipped_count, errors
OnNoMasterData(csv_file, db, parsed) ==
    [db |-> db,
     run |-> Returned(csv_file, parsed, <<>>, <<>>, None, NoStoreCall,
                      Result(0, parsed.skipped_count, parsed.errors))]

\* The stream failure swallowed: the run returns without reporting it.
OnStreamError_silent(csv_file, db, parsed) ==
    [db |-> db,
     run |-> Returned(csv_file, parsed, <<>>, <<>>, None, <<"raised", 0, "not_called">>,
                      Result(0, parsed.skipped_count, parsed.errors))]

\* The stream failure put in front of the errors gathered so far.
OnStreamError_first(csv_file, db, parsed) ==
    [db |-> db,
     run |-> Returned(csv_file, parsed, <<>>, <<>>, None, <<"raised", 0, "not_called">>,
                      Result(0, parsed.skipped_count,
                             <<Error("store_read", 0)>> \o parsed.errors))]

\* except Exception around the stream: return updated_count, skipped_count, errors
OnStreamError(csv_file, db, parsed) ==
    [db |-> db,
     run |-> Returned(csv_file, parsed, <<>>, <<>>, None, <<"raised", 0, "not_called">>,
                      Result(0, parsed.skipped_count,
                             Append(parsed.errors, Error("store_read", 0))))]

\* batch.update raises while the first write is staged: no handler encloses
\* the reconciliation loop, so the call ends with the exception and returns
\* no tuple.
OnStageError(csv_file, db, parsed, existing_players, sync_time) ==
    [db |-> db,
     run |-> [pc |-> "raised",
              csv_file |-> csv_file,
              master_data |-> parsed.master_data,
              existing_players |-> existing_players,
              batch |-> <<>>,
              sync_time |-> sync_time,
              stream |-> "ok",
              batch_calls |-> 1,
              commit |-> "not_called",
              ret |-> None]]

\* CommitStep that calls commit on the batch whether or not it holds a write.
CommitStep_always(csv_file, db, parsed, existing_players, rec, sync_time, commit_ok) ==
    IF commit_ok /\ Committable(db, rec.batch)
    THEN [db |-> ApplyBatch(db, rec.batch),
          run |-> Returned(csv_file, parsed, existing_players, rec.batch, sync_time,
                           <<"ok", 1, "ok">>,
                           Result(rec.updated_count, rec.skipped_count, parsed.errors))]
    ELSE [db |-> db,
          run |-> Returned(csv_file, parsed, existing_players, rec.batch, sync_time,
                           <<"ok", 1, "raised">>,
                           Result(0, rec.skipped_count,
                                  Append(parsed.errors, Error("batch_commit", 0))))]

\* CommitStep that keeps the staged count when the commit fails.
CommitStep_keep(csv_file, db, parsed, existing_players, rec, sync_time, commit_ok) ==
    IF rec.updated_count > 0
    THEN IF commit_ok /\ Committable(db, rec.batch)
         THEN [db |-> ApplyBatch(db, rec.batch),
               run |-> Returned(csv_file, parsed, existing_players, rec.batch, sync_time,
                                <<"ok", 1, "ok">>,
                                Result(rec.updated_count, rec.skipped_count, parsed.errors))]
         ELSE [db |-> db,
               run |-> Returned(csv_file, parsed, existing_players, rec.batch, sync_time,
                                <<"ok", 1, "raised">>,
                                Result(rec.updated_count, rec.skipped_count,
                                       Append(parsed.errors, Error("batch_commit", 0))))]
    ELSE [db |-> db,
          run |-> Returned(csv_file, parsed, existing_players, rec.batch, sync_time,
                           <<"ok", 1, "not_called">>,
                           Result(rec.updated_count, rec.skipped_count, parsed.errors))]

\* Step 4, the commit of the batch, and the return that follows it.
CommitStep(csv_file, db, parsed, existing_players, rec, sync_time, commit_ok) ==
    IF rec.updated_count > 0
    THEN IF commit_ok /\ Committable(db, rec.batch)
         THEN [db |-> ApplyBatch(db, rec.batch),
               run |-> Returned(csv_file, parsed, existing_players, rec.batch, sync_time,
                                <<"ok", 1, "ok">>,
                                Result(rec.updated_count, rec.skipped_count, parsed.errors))]
         ELSE [db |-> db,
               run |-> Returned(csv_file, parsed, existing_players, rec.batch, sync_time,
                                <<"ok", 1, "raised">>,
                                Result(0, rec.skipped_count,
                                       Append(parsed.errors, Error("batch_commit", 0))))]
    ELSE [db |-> db,
          run |-> Returned(csv_file, parsed, existing_players, rec.batch, sync_time,
                           <<"ok", 1, "not_called">>,
                           Result(rec.updated_count, rec.skipped_count, parsed.errors))]

\* Steps 2 to 4 on the parsed rows: load, reconcile, commit.
SyncParsed(csv_file, db, parsed, stream_ok, stage_ok, commit_ok, now) ==
    IF ~stream_ok THEN OnStreamError(csv_file, db, parsed)
    ELSE LET existing_players == LoadPlayers(db, StreamOf(db, DocOrder), <<>>)
             sync_time == Datetime(now, FALSE, 0)
             rec == Reconcile([batch |-> <<>>, updated_count |-> 0,
                               skipped_count |-> parsed.skipped_count],
                              parsed.master_data, existing_players, sync_time)
         IN  IF ~stage_ok /\ rec.batch # <<>>
             THEN OnStageError(csv_file, db, parsed, existing_players, sync_time)
             ELSE CommitStep(csv_file, db, parsed, existing_players, rec, sync_time,
                             commit_ok)

\* The whole call on the file csv_file against the store db; stream_ok,
\* stage_ok and commit_ok are the outcomes of the calls on the store (stream,
\* batch.update, commit), now the wall clock.
sync_from_csv(csv_file, db, stream_ok, stage_ok, commit_ok, now) ==
    LET parsed == ParseRows(csv_file.rows, 0,
                     [master_data |-> <<>>, errors |-> <<>>, skipped_count |-> 0])
    IN  IF ~csv_file.exists THEN OnFileNotFound(csv_file, db)
        ELSE IF csv_file.broken THEN OnReadError(csv_file, db, parsed)
        ELSE IF parsed.master_data = <<>> THEN OnNoMasterData(csv_file, db, parsed)
        ELSE SyncParsed(csv_file, db, parsed, stream_ok, stage_ok, commit_ok, now)

\* ------------------------------------------------------------- the inputs
\* The other fields of a snapshot row go with the clock of its timestamp.
Payload(clock) ==
    IF clock % 2 = 1
    THEN [player_name |-> "Player One", participation_count |-> "10", current_class |-> "A"]
    ELSE [player_name |-> "Player Two", participation_count |-> "5", current_class |-> "B"]

Row(jdl_id, payload, last_updated) ==
    [jdl_id |-> jdl_id,
     player_name |-> payload.player_name,
     participation_count |-> payload.participation_count,
     current_class |-> payload.current_class,
     last_updated |-> last_updated]

\* JDL000001 is written with every suffix, JDL000002 in UTC only.
ValidRows ==
    {Row("JDL000001", Payload(c), IsoCell(c, s)) : c \in 1..MaxClock, s \in Suffixes}
    \cup {Row("JDL000002", Payload(c), IsoCell(c, "Z")) : c \in 1..MaxClock}

\* Rows that break one validation rule each, and one that breaks three.
InvalidRows ==
    {Row("JDLINVALID", Payload(1), IsoCell(1, "Z")),
     Row("JDL000001", [Payload(1) EXCEPT !.participation_count = "-5"], IsoCell(2, "Z")),
     Row("JDL000001", [Payload(1) EXCEPT !.current_class = "X"], IsoCell(2, "Z")),
     Row("JDL000002", [Payload(1) EXCEPT !.participation_count = ""], IsoCell(2, "")),
     Row("JDL000001", Payload(1), GarbageCell),
     Row("JDL000002", Payload(1), EmptyCell),
     Row("JDLINVALID", [Payload(1) EXCEPT !.current_class = "X"], GarbageCell)}

\* Rows with an empty player_name cell and with a quoted jdl_id cell that ends
\* in a line break.
EdgeRows ==
    {Row("JDL000002", [Payload(2) EXCEPT !.player_name = ""], IsoCell(2, "Z")),
     Row("JDL000001\n", Payload(1), IsoCell(1, "Z"))}

Rows == ValidRows \cup EdgeRows \cup InvalidRows
Snapshots == UNION {[1..n -> Rows] : n \in 0..MaxRows}
\* A broken file of at most MaxRows lines yields fewer than MaxRows rows.
Files ==
    {MissingFile}
    \cup {CsvFile(rows, FALSE) : rows \in Snapshots}
    \cup {CsvFile(rows, TRUE) : rows \in {r \in Snapshots : Len(r) < MaxRows}}

\* A player document as player creation writes it, with the marker m (or no
\* marker field when m is "absent").
Player(jdl_id, m) ==
    LET base == [jdl_id |-> jdl_id, name |-> "Old Name", team_id |-> "team1",
                 participation_count |-> 8, current_class |-> "D",
                 created_at |-> Datetime(0, FALSE, 0),
                 updated_at |-> Datetime(0, FALSE, 0)]
    IN  IF m = [type |-> "absent"] THEN base
        ELSE ("last_updated_by_master" :> m) @@ base

NoJdlPlayer == [name |-> "No Id", team_id |-> "team1", participation_count |-> 1,
                current_class |-> "E", created_at |-> Datetime(0, FALSE, 0),
                updated_at |-> Datetime(0, FALSE, 0)]

InitMarkers ==
    {[type |-> "absent"], None, SERVER_TIMESTAMP,
     Datetime(1, FALSE, 0), Datetime(1, TRUE, 0)}

\* jdl_id is unique among the stored players (player creation refuses a
\* jdl_id already in use); a document may lack the field.
InitStores ==
    {("doc1" :> Player("JDL000001", m)) @@ ("doc2" :> d) :
        m \in InitMarkers,
        d \in {Player("JDL000002", [type |-> "absent"]), NoJdlPlayer}}

WallClocks == {9}

\* The outcomes <<stream_ok, stage_ok, commit_ok>> of the store calls of a
\* run: a run on a file that is unreadable or holds no valid row makes no
\* store call.
StoreOutcomes(csv_file) ==
    IF csv_file.exists /\ ~csv_file.broken /\ \E k \in 1..Len(csv_file.rows) : ParseRow(csv_file.rows[k], k - 1).ok
    THEN {<<FALSE, TRUE, TRUE>>, <<TRUE, FALSE, TRUE>>, <<TRUE, TRUE, FALSE>>,
          <<TRUE, TRUE, TRUE>>}
    ELSE {<<TRUE, TRUE, TRUE>>}

\* ------------------------------------------------- the command-line script
\* The notification address of an invocation: --admin-email or ADMIN_EMAIL,
\* None when neither is set.
AdminEmails == {None, [type |-> "str", text |-> "admin@example.com"]}

\* What becomes of the notification once it is due: a mail setting is unset
\* and no send is attempted, the send raises, or the message is sent.
MailOutcomes == {"smtp_unset", "send_raised", "sent"}

NoScript == [pc |-> "none"]

\* The process of one invocation after it ended: mail is "unused" when no
\* notification was due, send_calls counts send_email_notification.
Exited(admin_email, mail, send_calls, exit_code) ==
    [pc |-> "exited", admin_email |-> admin_email, mail |-> mail,
     send_calls |-> send_calls, exit_code |-> exit_code]

\* main that sends one message for every entry of errors.
main_per_error(r, admin_email, mail) ==
    IF r.pc = "raised" THEN Exited(admin_email, "unused", 0, 1)
    ELSE IF r.ret.errors # <<>> /\ admin_email # None
         THEN IF mail = "smtp_unset"
              THEN Exited(admin_email, mail, 0, 0)
              ELSE Exited(admin_email, mail, Len(r.ret.errors), 0)
         ELSE Exited(admin_email, "unused", 0, 0)

\* main(csv_path, admin_email) under asyncio.run in the __main__ block, on
\* the finished call r of sync_from_csv: an exception of the call leaves main
\* and the process exits with 1; a returned tuple is reported, by mail when
\* errors is non-empty and an address is set, and the process ends with 0.
main(r, admin_email, mail) ==
    IF r.pc = "raised" THEN Exited(admin_email, "unused", 0, 1)
    ELSE IF r.ret.errors # <<>> /\ admin_email # None
         THEN IF mail = "smtp_unset"
              THEN Exited(admin_email, mail, 0, 0)
              ELSE Exited(admin_email, mail, 1, 0)
         ELSE Exited(admin_email, "unused", 0, 0)

\* ---------------------------------------------------------- the machine
\* store: the players collection.  run, script: the one call of
\* sync_from_csv, and the one invocation of the script, that is under way
\* when calls follow one another.  procs, ghost: the calls of sync_from_csv
\* that run side by side, each at its own position, and what is remembered
\* of their commits.  history, notifications, calls: the collections
\* class_change_history and notifications, and the calls of the class-change
\* endpoints that are being served.
VARIABLES store, run, script, procs, ghost, history, notifications, calls

vars == <<store, run, script, procs, ghost, history, notifications, calls>>

Idle == [pc |-> "idle"]

\* The processes that call sync_from_csv side by side.
Procs == {"p1", "p2"}

\* Nothing committed yet by any process.
NoCommits ==
    [overlap |-> FALSE,
     commits |-> [p \in Procs |-> 0],
     committed |-> [d \in {"doc1", "doc2"} |-> {}]]

\* The server processes that answer the class-change endpoints on one
\* database, each one call at a time; inside one process a handler runs
\* without a break up to its await.
Callers == {"c1", "c2"}

Init ==
    /\ store \in InitStores
    /\ run = Idle
    /\ script = NoScript
    /\ procs = [p \in Procs |-> Idle]
    /\ ghost = NoCommits
    /\ history = <<>>
    /\ notifications = <<>>
    /\ calls = [c \in Callers |-> Idle]

\* One call of sync_from_csv on any file, made when no call is running.
Sync ==
    /\ run.pc = "idle"
    /\ \E csv_file \in Files, now \in WallClocks :
       \E oc \in StoreOutcomes(csv_file) :
        LET out == sync_from_csv(csv_file, store, oc[1], oc[2], oc[3], now) IN
        /\ store' = out.db
        /\ run' = ("resync" :> FALSE) @@ out.run
        /\ UNCHANGED <<script, procs, ghost, history, notifications, calls>>

\* The call is repeated on the same, unchanged file right after a call whose
\* commit succeeded.
Resync ==
    /\ run.pc = "returned"
    /\ run.commit = "ok"
    /\ \E now \in WallClocks, oc \in StoreOutcomes(run.csv_file) :
        LET out == sync_from_csv(run.csv_file, store, oc[1], oc[2], oc[3], now) IN
        /\ store' = out.db
        /\ run' = ("resync" :> TRUE) @@ out.run
        /\ UNCHANGED <<script, procs, ghost, history, notifications, calls>>

\* The caller is done with the call, returned or raised; its locals are gone.
Exit ==
    /\ run.pc \in {"returned", "raised"}
    /\ run' = Idle
    /\ script' = NoScript
    /\ UNCHANGED <<store, procs, ghost, history, notifications, calls>>

Next == Sync \/ Resync \/ Exit

Spec == Init /\ [][Next]_vars

\* One invocation of the script: the call of sync_from_csv, the report of
\* its errors and the end of the process.
Main ==
    /\ run.pc = "idle"
    /\ \E csv_file \in Files, now \in WallClocks, admin_email \in AdminEmails,
          mail \in MailOutcomes :
       \E oc \in StoreOutcomes(csv_file) :
        LET out == sync_from_csv(csv_file, store, oc[1], oc[2], oc[3], now) IN
        /\ store' = out.db
        /\ run' = ("resync" :> FALSE) @@ out.run
        /\ script' = main(out.run, admin_email, mail)
        /\ UNCHANGED <<procs, ghost, history, notifications, calls>>

NextScript == Main \/ Exit

\* The store under invocations of the script only.
SpecScript == Init /\ [][NextScript]_vars

\* ------------------------------------------- calls that run side by side
\* The snapshots of the processes: timestamps in UTC for JDL000001 at every
\* clock and for JDL000002 at clock 1, and one without offset for JDL000001.
RunRows ==
    {Row("JDL000001", Payload(c), IsoCell(c, "Z")) : c \in 1..MaxClock}
    \cup {Row("JDL000002", Payload(1), IsoCell(1, "Z")),
          Row("JDL000001", Payload(1), IsoCell(1, ""))}

RunFiles == {CsvFile(rows, FALSE) : rows \in UNION {[1..n -> RunRows] : n \in 0..MaxRows}}

\* The stores the processes start on: JDL000001 without marker or with an
\* aware one, JDL000002 without marker.
RunStores ==
    {("doc1" :> Player("JDL000001", m)) @@ ("doc2" :> Player("JDL000002", [type |-> "absent"])) :
        m \in {[type |-> "absent"], Datetime(1, TRUE, 0)}}

InitRuns ==
    /\ store \in RunStores
    /\ run = Idle
    /\ script = NoScript
    /\ procs = [p \in Procs |-> Idle]
    /\ ghost = NoCommits
    /\ history = <<>>
    /\ notifications = <<>>
    /\ calls = [c \in Callers |-> Idle]

\* Step 1 of a call: the file is opened, read and validated; a call that
\* finds no file or no valid row returns here.
StartRun(p) ==
    /\ procs[p].pc = "idle"
    /\ \E csv_file \in RunFiles :
        LET parsed == ParseRows(csv_file.rows, 0,
                         [master_data |-> <<>>, errors |-> <<>>, skipped_count |-> 0])
        IN  procs' = [procs EXCEPT ![p] =
                IF ~csv_file.exists THEN OnFileNotFound(csv_file, store).run
                ELSE IF csv_file.broken THEN OnReadError(csv_file, store, parsed).run
                ELSE IF parsed.master_data = <<>>
                     THEN OnNoMasterData(csv_file, store, parsed).run
                ELSE [pc |-> "parsed", csv_file |-> csv_file, parsed |-> parsed]]
    /\ UNCHANGED <<store, run, script, ghost, history, notifications, calls>>

\* Step 2 of a call: the collection is streamed into existing_players, the
\* batch is opened and the wall clock is read; a failed stream returns.
LoadStep(p) ==
    /\ procs[p].pc = "parsed"
    /\ \E stream_ok \in BOOLEAN, now \in WallClocks :
        procs' = [procs EXCEPT ![p] =
            IF ~stream_ok THEN OnStreamError(procs[p].csv_file, store, procs[p].parsed).run
            ELSE [pc |-> "loaded",
                  csv_file |-> procs[p].csv_file,
                  parsed |-> procs[p].parsed,
                  existing_players |-> LoadPlayers(store, StreamOf(store, DocOrder), <<>>),
                  sync_time |-> Datetime(now, FALSE, 0),
                  rec |-> [batch |-> <<>>, updated_count |-> 0,
                           skipped_count |-> procs[p].parsed.skipped_count],
                  next |-> 1]]
    /\ ghost' = [ghost EXCEPT !.overlap =
                    @ \/ (procs'[p].pc = "loaded"
                          /\ \E q \in Procs \ {p} : procs[q].pc = "loaded")]
    /\ UNCHANGED <<store, run, script, history, notifications, calls>>

\* Step 3 of a call, once per item of master_data: the item is skipped or
\* its write is staged; an exception of batch.update ends the call.
StageStep(p) ==
    /\ procs[p].pc = "loaded"
    /\ procs[p].next <= Len(procs[p].parsed.master_data)
    /\ \E stage_ok \in BOOLEAN :
        LET rec == ReconcileOne(procs[p].rec, procs[p].parsed.master_data[procs[p].next],
                                procs[p].existing_players, procs[p].sync_time)
        IN  procs' = [procs EXCEPT ![p] =
                IF ~stage_ok /\ rec.batch # procs[p].rec.batch
                THEN OnStageError(procs[p].csv_file, store, procs[p].parsed,
                                  procs[p].existing_players, procs[p].sync_time).run
                ELSE [procs[p] EXCEPT !.rec = rec, !.next = @ + 1]]
    /\ UNCHANGED <<store, run, script, ghost, history, notifications, calls>>

\* The markers the writes of a batch carry for the document d.
CommittedMarkers(batch, d) ==
    {batch[w].data.last_updated_by_master : w \in {n \in 1..Len(batch) : batch[n].ref = d}}

\* Step 4 of a call, after the last item: the batch is committed when it
\* holds a write, and the call returns.
CommitRun(p) ==
    /\ procs[p].pc = "loaded"
    /\ procs[p].next > Len(procs[p].parsed.master_data)
    /\ \E commit_ok \in BOOLEAN :
        LET out == CommitStep(procs[p].csv_file, store, procs[p].parsed,
                              procs[p].existing_players, procs[p].rec,
                              procs[p].sync_time, commit_ok)
        IN  /\ store' = out.db
            /\ procs' = [procs EXCEPT ![p] = out.run]
            /\ ghost' = [ghost EXCEPT
                  !.commits[p] = IF out.run.commit = "not_called" THEN @ ELSE @ + 1,
                  !.committed = [d \in DOMAIN @ |->
                      IF out.run.commit = "ok"
                      THEN @[d] \cup CommittedMarkers(procs[p].rec.batch, d)
                      ELSE @[d]]]
    /\ UNCHANGED <<run, script, history, notifications, calls>>

NextRuns == \E p \in Procs : StartRun(p) \/ LoadStep(p) \/ StageStep(p) \/ CommitRun(p)

\* Two calls of sync_from_csv on one store, interleaved in every way.
SpecRuns == InitRuns /\ [][NextRuns]_vars

\* ------------------------------------------------- class change requests
\* A Python str held where None can stand too.
Str(text) == [type |-> "str", text |-> text]

\* raise HTTPException(status_code=...) and any other exception.
HTTPException(status_code) == [exc |-> "HTTPException", status_code |-> status_code]
OtherException == [exc |-> "Exception", status_code |-> 0]

\* The status the client sees when the exception e leaves a handler.
StatusOf(e) == IF e.exc = "HTTPException" THEN e.status_code ELSE 500

\* except Exception as e: logger.error(...); raise HTTPException(500).
\* HTTPException is an Exception, so the handler's own 4xx land here too.
except_Exception(e) == HTTPException(500)

\* The teams collection and the users that call the endpoints.
Teams == [team1 |-> [manager_id |-> "manager1"]]
Users ==
    {[uid |-> "manager1", role |-> "manager"],
     [uid |-> "admin1", role |-> "admin"],
     [uid |-> "admin2", role |-> "admin"]}

\* The request bodies: a player with a document and one without.
ClassChangeRequests ==
    {[player_id |-> pid, new_class |-> "A", reason |-> "promotion"] :
        pid \in {"doc1", "doc9"}}

\* The approval bodies: an approval with a comment, a rejection without.
ClassChangeApprovals ==
    {[approved |-> TRUE, comment |-> Str("checked")],
     [approved |-> FALSE, comment |-> None]}

\* datetime.utcnow(): a reading without offset.
utcnow(now) == Datetime(now, FALSE, 0)

\* The notification document send_notification writes for user_id with the
\* default notification_type.
Notification(user_id) == [user_id |-> user_id, type |-> "system"]

\* history_data of a new request; the document id is its place in the
\* collection.
history_data_of(id, request, player_data, current_user, now) ==
    [id |-> id,
     player_id |-> request.player_id,
     old_class |-> player_data.current_class,
     new_class |-> request.new_class,
     reason |-> request.reason,
     requested_by |-> current_user.uid,
     requested_at |-> utcnow(now),
     status |-> "pending",
     approved_by |-> None,
     approved_at |-> None,
     comment |-> None]

\* The try block of request_class_change on the players db and the history
\* collection hist: the exception it raises, if any, and what it has written
\* by then.
request_class_change_try(request, current_user, db, hist, notify_ok, now) ==
    IF request.player_id \notin DOMAIN db
    THEN [raised |-> TRUE, exception |-> HTTPException(404), history |-> hist, sent |-> <<>>]
    ELSE LET player_data == db[request.player_id]
             team_checked == "team_id" \in DOMAIN player_data /\ player_data.team_id # ""
         IN  IF team_checked
                /\ (player_data.team_id \notin DOMAIN Teams
                    \/ Teams[player_data.team_id].manager_id # current_user.uid)
             THEN [raised |-> TRUE, exception |-> HTTPException(403),
                   history |-> hist, sent |-> <<>>]
             ELSE LET history_data == history_data_of(Len(hist) + 1, request, player_data,
                                                     current_user, now)
                  IN  IF ~notify_ok
                      THEN [raised |-> TRUE, exception |-> OtherException,
                            history |-> Append(hist, history_data), sent |-> <<>>]
                      ELSE [raised |-> FALSE, body |-> history_data,
                            history |-> Append(hist, history_data),
                            sent |-> <<Notification("admin")>>]

\* request_class_change: the response and the collections after the call.
request_class_change(request, current_user, db, hist, notify_ok, now) ==
    LET out == request_class_change_try(request, current_user, db, hist, notify_ok, now)
    IN  IF out.raised
        THEN [status_code |-> StatusOf(except_Exception(out.exception)),
              body |-> None, history |-> out.history, sent |-> out.sent]
        ELSE [status_code |-> 201, body |-> out.body,
              history |-> out.history, sent |-> out.sent]

\* update_data that records every decision as an approval.
approval_update_data_approved(approval, current_user, now) ==
    [status |-> "approved",
     approved_by |-> Str(current_user.uid),
     approved_at |-> utcnow(now),
     comment |-> approval.comment]

\* update_data of approve_class_change.
approval_update_data(approval, current_user, now) ==
    [status |-> IF approval.approved THEN "approved" ELSE "rejected",
     approved_by |-> Str(current_user.uid),
     approved_at |-> utcnow(now),
     comment |-> approval.comment]

\* update(fields) on a document: the fields given replace or extend it.
DocUpdate(doc, fields) ==
    [k \in DOMAIN doc \cup DOMAIN fields |-> IF k \in DOMAIN fields THEN fields[k] ELSE doc[k]]

\* The checks of approve_class_change before its transaction: the exception
\* they raise, or the history_data read.
approve_checks(history_id, current_user, hist) ==
    IF current_user.role # "admin"
    THEN [raised |-> TRUE, exception |-> HTTPException(403)]
    ELSE IF history_id \notin 1..Len(hist)
    THEN [raised |-> TRUE, exception |-> HTTPException(404)]
    ELSE IF hist[history_id].status # "pending"
    THEN [raised |-> TRUE, exception |-> HTTPException(400)]
    ELSE [raised |-> FALSE, history_data |-> hist[history_id]]

\* update_in_transaction: the exception it raises, or the players and the
\* history collection after its commit.
update_in_transaction(approval, history_data, update, db, hist, commit_ok, now) ==
    IF approval.approved /\ history_data.player_id \notin DOMAIN db
    THEN [raised |-> TRUE, exception |-> HTTPException(404)]
    ELSE IF ~commit_ok \/ history_data.id \notin 1..Len(hist)
    THEN [raised |-> TRUE, exception |-> OtherException]
    ELSE [raised |-> FALSE,
          db |-> IF approval.approved
                 THEN [db EXCEPT ![history_data.player_id] =
                          DocUpdate(@, [current_class |-> history_data.new_class,
                                        updated_at |-> utcnow(now)])]
                 ELSE db,
          history |-> [hist EXCEPT ![history_data.id] = DocUpdate(@, update)]]

\* Most requests the history collection takes.
MaxHistory == 2

\* A call that was answered: the endpoint, the player id or the history id it
\* was made with, and the response.
Done(op, player_id, history_id, status_code, body) ==
    [pc |-> "done", op |-> op, player_id |-> player_id, history_id |-> history_id,
     status_code |-> status_code, body |-> body]

Free(c) == calls[c].pc \in {"idle", "done"}

InitClassChange ==
    /\ store = ("doc1" :> Player("JDL000001", [type |-> "absent"]))
    /\ run = Idle
    /\ script = NoScript
    /\ procs = [p \in Procs |-> Idle]
    /\ ghost = NoCommits
    /\ history = <<>>
    /\ notifications = <<>>
    /\ calls = [c \in Callers |-> Idle]

\* POST /class-changes/request, answered by the process c.
RequestClassChange(c) ==
    /\ Free(c)
    /\ Len(history) < MaxHistory
    /\ \E request \in ClassChangeRequests, current_user \in Users,
          notify_ok \in BOOLEAN, now \in WallClocks :
        LET out == request_class_change(request, current_user, store, history, notify_ok, now)
        IN  /\ history' = out.history
            /\ notifications' = notifications \o out.sent
            /\ calls' = [calls EXCEPT ![c] =
                            Done("request", request.player_id, 0, out.status_code, out.body)]
    /\ UNCHANGED <<store, run, script, procs, ghost>>

\* POST /class-changes/{history_id}/approve up to the transaction: the role
\* check and the read of the history record.
ApproveRead(c) ==
    /\ Free(c)
    /\ \E history_id \in 1..MaxHistory, approval \in ClassChangeApprovals,
          current_user \in Users :
        LET out == approve_checks(history_id, current_user, history)
        IN  calls' = [calls EXCEPT ![c] =
                IF out.raised
                THEN Done("approve", "", history_id,
                          StatusOf(except_Exception(out.exception)), None)
                ELSE [pc |-> "checked", history_id |-> history_id, approval |-> approval,
                      current_user |-> current_user, history_data |-> out.history_data]]
    /\ UNCHANGED <<store, run, script, procs, ghost, history, notifications>>

\* The transaction of the approval the process c has checked.
ApproveTransaction(c) ==
    /\ calls[c].pc = "checked"
    /\ \E commit_ok \in BOOLEAN, now \in WallClocks :
        LET update == approval_update_data(calls[c].approval, calls[c].current_user, now)
            out == update_in_transaction(calls[c].approval, calls[c].history_data, update,
                                         store, history, commit_ok, now)
        IN  IF out.raised
            THEN /\ calls' = [calls EXCEPT ![c] =
                        Done("approve", "", calls[c].history_id,
                             StatusOf(except_Exception(out.exception)), None)]
                 /\ UNCHANGED <<store, history>>
            ELSE /\ store' = out.db
                 /\ history' = out.history
                 /\ calls' = [calls EXCEPT ![c] =
                        [pc |-> "committed", history_id |-> calls[c].history_id,
                         approval |-> calls[c].approval,
                         current_user |-> calls[c].current_user,
                         history_data |-> calls[c].history_data,
                         update_data |-> update]]
    /\ UNCHANGED <<run, script, procs, ghost, notifications>>

\* The rest of the approval after its transaction: the requester is
\* notified and the updated history_data is returned.
ApproveReturn(c) ==
    /\ calls[c].pc = "committed"
    /\ \E notify_ok \in BOOLEAN :
        IF notify_ok
        THEN /\ notifications' =
                    Append(notifications, Notification(calls[c].history_data.requested_by))
             /\ calls' = [calls EXCEPT ![c] =
                    Done("approve", "", calls[c].history_id, 200,
                         DocUpdate(calls[c].history_data, calls[c].update_data))]
        ELSE /\ notifications' = notifications
             /\ calls' = [calls EXCEPT ![c] =
                    Done("approve", "", calls[c].history_id,
                         StatusOf(except_Exception(OtherException)), None)]
    /\ UNCHANGED <<store, run, script, procs, ghost, history>>

NextClassChange ==
    \E c \in Callers :
        RequestClassChange(c) \/ ApproveRead(c) \/ ApproveTransaction(c) \/ ApproveReturn(c)

\* Calls of the two class change endpoints, interleaved in every way.
SpecClassChange == InitClassChange /\ [][NextClassChange]_vars

\* =================================================================
\* The claims.  In a returned run, rows are numbered from 1 as they
\* stand in the file, and row k is reported as line k + 1.
\* =================================================================
RowCount == Len(run.csv_file.rows)
RowValid(k) == ParseRow(run.csv_file.rows[k], k - 1).ok
ValidRowNos == {k \in 1..RowCount : RowValid(k)}
InvalidRowNos == {k \in 1..RowCount : ~RowValid(k)}

\* The wall clock a run read, 0 when it returned before reading it.
NowOf(r) == IF r.sync_time.type = "datetime" THEN r.sync_time.clock ELSE 0

\* The run got as far as the reconciliation.
Reconciled == run.pc = "returned" /\ run.stream = "ok"

\* The marker of a loaded record, None when the record has none.
LoadedMarker(p) ==
    IF "last_updated_by_master" \in DOMAIN p.data THEN p.data.last_updated_by_master ELSE None

StagedFor(id) == \E w \in 1..Len(run.batch) : run.batch[w].ref = id
Matched(e) == e.jdl_id \in DOMAIN run.existing_players

\* M is strictly newer than S, for two datetimes of the same awareness.
Newer(M, S) ==
    IF M.aware THEN M.clock - M.off > S.clock - S.off ELSE M.clock > S.clock

\* C1: a write is staged for a stored record only if a master row is matched
\* to it by jdlId and the marker S loaded for it is absent, or exactly one of
\* S and M carries an offset, or M is strictly newer than S (instants for
\* aware values, readings for naive ones); when S and M are comparable and
\* S >= M no write is staged for the record.
C1_WriteOnlyIfNewer ==
    run.pc = "returned" =>
        /\ \A w \in 1..Len(run.batch) :
              \E k \in 1..Len(run.master_data) :
                  /\ Matched(run.master_data[k])
                  /\ run.existing_players[run.master_data[k].jdl_id].id = run.batch[w].ref
        /\ \A k \in 1..Len(run.master_data) :
              LET e == run.master_data[k] IN
              Matched(e) =>
                  LET p == run.existing_players[e.jdl_id]
                      S == LoadedMarker(p)
                      M == e.last_updated
                  IN  /\ StagedFor(p.id) =>
                            \/ S = None
                            \/ S.type = "datetime" /\ S.aware # M.aware
                            \/ S.type = "datetime" /\ S.aware = M.aware /\ Newer(M, S)
                      /\ (S.type = "datetime" /\ S.aware = M.aware /\ ~Newer(M, S))
                            => ~StagedFor(p.id)

\* C1 witness: a write staged because an aware M is a later instant than an
\* aware S written with another offset.
C1_Witness ==
    /\ Reconciled
    /\ \E k \in 1..Len(run.master_data) :
          LET e == run.master_data[k] IN
          /\ Matched(e)
          /\ LoadedMarker(run.existing_players[e.jdl_id]).type = "datetime"
          /\ LoadedMarker(run.existing_players[e.jdl_id]).aware
          /\ e.last_updated.aware
          /\ LoadedMarker(run.existing_players[e.jdl_id]).off # e.last_updated.off
          /\ StagedFor(run.existing_players[e.jdl_id].id)

\* Rows that are valid and whose jdlId no stored record carries.
UnmatchedRowNos ==
    {k \in ValidRowNos : run.csv_file.rows[k].jdl_id \notin DOMAIN run.existing_players}
UnmatchedIds == {run.csv_file.rows[k].jdl_id : k \in UnmatchedRowNos}
SkippedEntries ==
    {k \in 1..Len(run.master_data) :
        Matched(run.master_data[k])
        /\ ~StagedFor(run.existing_players[run.master_data[k].jdl_id].id)}

\* Every staged operation updates a stored document that carries the jdlId
\* of a valid row: nothing is staged for an unmatched row.
NothingStagedForUnmatched ==
    \A w \in 1..Len(run.batch) :
        /\ run.batch[w].op = "update"
        /\ run.batch[w].ref \in DOMAIN store
        /\ "jdl_id" \in DOMAIN store[run.batch[w].ref]
        /\ store[run.batch[w].ref].jdl_id \notin UnmatchedIds

NoErrorForUnmatched ==
    \A k \in UnmatchedRowNos :
        \A n \in 1..Len(run.ret.errors) : run.ret.errors[n].line # k + 1

\* C2 as stated: every valid unmatched row adds one to skippedCount (with
\* the one every invalid row adds), stages nothing and adds no error.
C2_EveryUnmatchedRowCounted ==
    Reconciled =>
        /\ NothingStagedForUnmatched
        /\ NoErrorForUnmatched
        /\ run.ret.skipped_count >= Cardinality(InvalidRowNos) + Cardinality(UnmatchedRowNos)

\* C2 amended: for every valid row whose jdlId matches no stored record the
\* run stages no write and adds no error, and the rows that share one such
\* jdlId add one to skippedCount together; no step of any sequence of runs
\* changes the set of stored documents.
C2_UnmatchedSkippedNeverCreated ==
    /\ [](Reconciled =>
            /\ NothingStagedForUnmatched
            /\ NoErrorForUnmatched
            /\ run.ret.skipped_count =
                   Cardinality(InvalidRowNos) + Cardinality(UnmatchedIds)
                   + Cardinality(SkippedEntries))
    /\ [][DOMAIN store' = DOMAIN store]_vars

\* C2 witness: two valid rows with one unmatched jdlId, counted once.
C2_Witness ==
    /\ Reconciled
    /\ Cardinality(UnmatchedRowNos) = 2
    /\ Cardinality(UnmatchedIds) = 1
    /\ run.ret.skipped_count = 1

\* C3: when the commit fails, updatedCount is 0 although N >= 1 writes were
\* staged, skippedCount is the one the same run returns when the commit
\* succeeds, and errors holds exactly one entry for the commit failure.
C3_CommitFailure ==
    (run.pc = "returned" /\ run.commit = "raised") =>
        /\ Len(run.batch) >= 1
        /\ run.ret.updated_count = 0
        /\ run.ret.skipped_count =
               sync_from_csv(run.csv_file, store, TRUE, TRUE, TRUE,
                             NowOf(run)).run.ret.skipped_count
        /\ Cardinality({n \in 1..Len(run.ret.errors) :
                           run.ret.errors[n].kind = "batch_commit"}) = 1

\* C3 witness: a failed commit of two staged writes.
C3_Witness ==
    /\ run.pc = "returned"
    /\ run.commit = "raised"
    /\ Len(run.batch) = 2

\* C4: a run repeated on the unchanged snapshot right after a run whose
\* commit succeeded stages no write and returns updatedCount = 0.
C4_Idempotent ==
    (run.pc = "returned" /\ run.resync) =>
        /\ run.batch = <<>>
        /\ run.commit = "not_called"
        /\ run.ret.updated_count = 0

\* C4 witness: the repeated run reconciled a matched row and skipped it.
C4_Witness ==
    /\ Reconciled
    /\ run.resync
    /\ SkippedEntries # {}

\* The datetime and the number a row's cells stand for.
TimeOfCell(cell) ==
    [type |-> "datetime", clock |-> cell.clock, aware |-> cell.suffix # "",
     off |-> IF cell.suffix = "+01:00" THEN 1 ELSE 0]
NumberOfCell(text) ==
    CASE text = "10" -> 10 [] text = "5" -> 5 [] text = "0" -> 0

\* The row that triggers the write to a record: the last valid row that
\* carries the record's jdlId.
TriggerRow(jdl_id) ==
    LET nos == {k \in ValidRowNos : run.csv_file.rows[k].jdl_id = jdl_id}
    IN  run.csv_file.rows[CHOOSE k \in nos : \A j \in nos : j <= k]

\* C5: after a committed run every record it updated holds the triggering
\* row's lastUpdated as its marker (not the sync time) and that row's name,
\* participationCount and currentClass.
C5_WrittenValues ==
    (run.pc = "returned" /\ run.commit = "ok") =>
        \A w \in 1..Len(run.batch) :
            LET doc == store[run.batch[w].ref]
                row == TriggerRow(doc.jdl_id)
            IN  /\ doc.last_updated_by_master = TimeOfCell(row.last_updated)
                /\ doc.last_updated_by_master # run.sync_time
                /\ doc.name = row.player_name
                /\ doc.participation_count = NumberOfCell(row.participation_count)
                /\ doc.current_class = row.current_class

\* C5 witness: a committed run wrote a record from the later of two rows
\* with its jdlId, the earlier one carrying another timestamp.
C5_Witness ==
    /\ run.pc = "returned"
    /\ run.commit = "ok"
    /\ RowCount = 2
    /\ ValidRowNos = {1, 2}
    /\ run.csv_file.rows[1].jdl_id = run.csv_file.rows[2].jdl_id
    /\ run.csv_file.rows[1].last_updated # run.csv_file.rows[2].last_updated

\* C6: for every loaded record whose marker is null or absent, a valid row
\* with the record's jdlId makes the run stage an update of that record,
\* whatever the row's lastUpdated and its timezone awareness.
C6_NullMarkerAlwaysUpdated ==
    Reconciled =>
        \A j \in DOMAIN run.existing_players :
            (/\ LoadedMarker(run.existing_players[j]) = None
             /\ \E k \in ValidRowNos : run.csv_file.rows[k].jdl_id = j)
            => StagedFor(run.existing_players[j].id)

\* C6 witness: a record without marker is updated from a naive timestamp.
C6_Witness ==
    /\ Reconciled
    /\ \E k \in 1..Len(run.master_data) :
          LET e == run.master_data[k] IN
          /\ Matched(e)
          /\ "last_updated_by_master" \notin DOMAIN run.existing_players[e.jdl_id].data
          /\ ~e.last_updated.aware
          /\ StagedFor(run.existing_players[e.jdl_id].id)

\* A row that breaks one of the rules the claim lists.
BreaksListedRule(row) ==
    \/ row.jdl_id = "JDLINVALID"
    \/ row.current_class \notin {"A", "B", "C", "D", "E"}
    \/ row.participation_count \in {"-5", ""}
    \/ row.last_updated.form # "iso"

ErrorsAtLine(n) == {m \in 1..Len(run.ret.errors) : run.ret.errors[m].line = n}

C8_EveryValidRowReconciled ==
    (Reconciled /\ ~run.csv_file.broken) =>
        Len(run.batch) + (run.ret.skipped_count - Cardinality(InvalidRowNos))
            = Cardinality(ValidRowNos)

ValidNosOf(rows) == {k \in 1..Len(rows) : ParseRow(rows[k], k - 1).ok}

\* The snapshot with the rows that fail validation removed.
RECURSIVE ValidRowsOf(_)
ValidRowsOf(rows) ==
    IF rows = <<>> THEN <<>>
    ELSE IF ParseRow(Head(rows), 0).ok
         THEN <<Head(rows)>> \o ValidRowsOf(Tail(rows))
         ELSE ValidRowsOf(Tail(rows))

\* C8 amended: a validation failure never stops the parse: every valid row
\* that no later valid row with the same jdlId follows is reconciled (updated
\* or skipped) in the same run, and the run stages the writes and returns the
\* counts it does on the snapshot with the invalid rows removed (skippedCount
\* less the invalid rows).
C8_InvalidRowsDoNotInterfere ==
    [][(run'.pc = "returned" /\ run'.csv_file.exists /\ ~run'.csv_file.broken) =>
          LET rows == run'.csv_file.rows
              invalid == Len(rows) - Cardinality(ValidNosOf(rows))
              ids == {rows[k].jdl_id : k \in ValidNosOf(rows)}
              clean == sync_from_csv(CsvFile(ValidRowsOf(rows), FALSE), store,
                                     run'.stream # "raised", TRUE,
                                     run'.commit # "raised", NowOf(run')).run
          IN  /\ run'.stream = "ok" =>
                    /\ Len(run'.master_data) = Cardinality(ids)
                    /\ Len(run'.batch) + run'.ret.skipped_count - invalid = Cardinality(ids)
              /\ {<<w.ref, w.data>> : w \in {run'.batch[n] : n \in 1..Len(run'.batch)}}
                   = {<<w.ref, w.data>> : w \in {clean.batch[n] : n \in 1..Len(clean.batch)}}
              /\ Len(run'.batch) = Len(clean.batch)
              /\ run'.ret.updated_count = clean.ret.updated_count
              /\ run'.ret.skipped_count - invalid = clean.ret.skipped_count
              /\ run'.stream = clean.stream
              /\ run'.commit = clean.commit
      ]_vars

\* C8 witness: the row after a rejected row is reconciled and its update
\* is staged.
C8_Witness ==
    /\ Reconciled
    /\ RowCount = 2
    /\ InvalidRowNos = {1}
    /\ Len(run.batch) = 1

\* C9: a missing snapshot file returns exactly (0, 0, [one error]) and the
\* run touches the store in no way: no stream, no batch, no staged update,
\* no commit.
C9_MissingFileNoStoreCall ==
    (run.pc = "returned" /\ ~run.csv_file.exists) =>
        /\ run.ret.updated_count = 0
        /\ run.ret.skipped_count = 0
        /\ Len(run.ret.errors) = 1
        /\ run.ret.errors[1].kind = "file_not_found"
        /\ run.stream = "not_called"
        /\ run.batch_calls = 0
        /\ run.batch = <<>>
        /\ run.commit = "not_called"

\* C9 witness: a run on a missing file has returned.
C9_Witness ==
    /\ run.pc = "returned"
    /\ ~run.csv_file.exists
    /\ Len(run.ret.errors) = 1

\* C10 as stated: when the store read fails the run returns at once with
\* updatedCount = 0, nothing staged, no commit, and errors of length one.
C10_ReadFailureOnlyError ==
    (run.pc = "returned" /\ run.stream = "raised") =>
        /\ run.ret.updated_count = 0
        /\ run.batch = <<>>
        /\ run.batch_calls = 0
        /\ run.commit = "not_called"
        /\ Len(run.ret.errors) = 1

\* C10 amended: when the store read fails the run returns at once with
\* updatedCount = 0, nothing staged and no commit, and the failure is one
\* entry appended to errors after the row errors: errors holds one entry per
\* invalid row and then that entry, so exactly one when no row was rejected.
C10_ReadFailureAppendsOneError ==
    (run.pc = "returned" /\ run.stream = "raised") =>
        /\ run.ret.updated_count = 0
        /\ run.batch = <<>>
        /\ run.batch_calls = 0
        /\ run.commit = "not_called"
        /\ Len(run.ret.errors) = Cardinality(InvalidRowNos) + 1
        /\ run.ret.errors[Len(run.ret.errors)].kind = "store_read"
        /\ \A n \in 1..(Len(run.ret.errors) - 1) : run.ret.errors[n].kind = "validation"

\* C10 witness: the store read fails after a row was rejected.
C10_Witness ==
    /\ run.pc = "returned"
    /\ run.stream = "raised"
    /\ Cardinality(InvalidRowNos) = 1
    /\ Len(run.ret.errors) = 2

\* The fields a staged write names.
SyncedFields ==
    {"name", "participation_count", "current_class", "last_updated_by_master",
     "updated_at"}

\* C11: a staged write names only the fields name, participationCount,
\* currentClass, lastSyncedFromMaster and updatedAt, and no step of a run
\* changes or removes any other field (jdlId, team assignment, creation
\* time) of any stored record or adds a field outside those five.
C11_OnlySyncedFieldsChange ==
    /\ [](run.pc = "returned" =>
            \A w \in 1..Len(run.batch) : DOMAIN run.batch[w].data = SyncedFields)
    /\ [][\A d \in DOMAIN store :
             /\ d \in DOMAIN store'
             /\ DOMAIN store'[d] \subseteq DOMAIN store[d] \cup SyncedFields
             /\ \A f \in DOMAIN store[d] \ SyncedFields :
                   f \in DOMAIN store'[d] /\ store'[d][f] = store[d][f]]_vars

\* C11 witness: a committed write gave a record a new name and a marker and
\* the record still has its jdlId, team and creation time.
C11_Witness ==
    /\ run.pc = "returned"
    /\ run.commit = "ok"
    /\ \E w \in 1..Len(run.batch) :
          LET doc == store[run.batch[w].ref] IN
          /\ doc.name # "Old Name"
          /\ doc.last_updated_by_master = run.batch[w].data.last_updated_by_master
          /\ doc.jdl_id \in {"JDL000001", "JDL000002"}
          /\ doc.team_id = "team1"
          /\ doc.created_at = Datetime(0, FALSE, 0)

\* The jdlIds of the rows of a snapshot that pass validation.
ValidIdsOf(rows) == {rows[k].jdl_id : k \in ValidNosOf(rows)}

\* C12: a run writes, and stages writes for, only stored records that carry
\* a jdlId which a validated row of the snapshot carries too; every other
\* stored record, a record without jdlId included, is the same after every
\* step of the run.
C12_OtherRecordsUntouched ==
    /\ [](run.pc = "returned" =>
            \A w \in 1..Len(run.batch) :
                /\ run.batch[w].ref \in DOMAIN store
                /\ "jdl_id" \in DOMAIN store[run.batch[w].ref]
                /\ store[run.batch[w].ref].jdl_id \in ValidIdsOf(run.csv_file.rows))
    /\ [][\A d \in DOMAIN store :
             (d \notin DOMAIN store' \/ store'[d] # store[d]) =>
                 /\ run'.pc = "returned"
                 /\ "jdl_id" \in DOMAIN store[d]
                 /\ store[d].jdl_id \in ValidIdsOf(run'.csv_file.rows)]_vars

\* C12 witness: a committed run wrote one record and the store still holds
\* the record without jdlId as it was.
C12_Witness ==
    /\ run.pc = "returned"
    /\ run.commit = "ok"
    /\ Len(run.batch) = 1
    /\ store[run.batch[1].ref].name # "Old Name"
    /\ store["doc2"] = NoJdlPlayer

\* C13: when the marker loaded for a matched record is a datetime and
\* exactly one of it and the master timestamp carries an offset, the run
\* stages an update of the record, whatever the two clock readings are.
C13_MixedAwarenessForcesUpdate ==
    Reconciled =>
        \A k \in 1..Len(run.master_data) :
            LET e == run.master_data[k] IN
            (/\ Matched(e)
             /\ LoadedMarker(run.existing_players[e.jdl_id]).type = "datetime"
             /\ LoadedMarker(run.existing_players[e.jdl_id]).aware # e.last_updated.aware)
            => \E w \in 1..Len(run.batch) :
                  /\ run.batch[w].ref = run.existing_players[e.jdl_id].id
                  /\ run.batch[w].data.last_updated_by_master = e.last_updated

\* C13 witness: an update staged from a naive master timestamp whose reading
\* is not later than the reading of the aware stored marker.
C13_Witness ==
    /\ Reconciled
    /\ \E k \in 1..Len(run.master_data) :
          LET e == run.master_data[k] IN
          /\ Matched(e)
          /\ LoadedMarker(run.existing_players[e.jdl_id]).type = "datetime"
          /\ LoadedMarker(run.existing_players[e.jdl_id]).aware
          /\ ~e.last_updated.aware
          /\ e.last_updated.clock <= LoadedMarker(run.existing_players[e.jdl_id]).clock
          /\ StagedFor(run.existing_players[e.jdl_id].id)

\* C14: when no row of a readable snapshot passes validation the run
\* returns without a store read, a batch, a staged update or a commit, with
\* updatedCount = 0, skippedCount the number of (invalid) rows and one error
\* per row, at the row's line; a header-only file returns (0, 0, []).
C14_NoValidRow ==
    (/\ run.pc = "returned"
     /\ run.csv_file.exists
     /\ ~run.csv_file.broken
     /\ ValidRowNos = {}) =>
        /\ run.stream = "not_called"
        /\ run.batch_calls = 0
        /\ run.batch = <<>>
        /\ run.commit = "not_called"
        /\ run.ret.updated_count = 0
        /\ run.ret.skipped_count = RowCount
        /\ Len(run.ret.errors) = RowCount
        /\ \A k \in 1..RowCount : run.ret.errors[k] = Error("validation", k + 1)
        /\ RowCount = 0 => run.ret = Result(0, 0, <<>>)

\* C14 witness: a snapshot of two rows, both rejected, returned (0, 2, two
\* errors) without a store call.
C14_Witness ==
    /\ run.pc = "returned"
    /\ run.csv_file.exists
    /\ ~run.csv_file.broken
    /\ RowCount = 2
    /\ ValidRowNos = {}
    /\ run.ret = Result(0, 2, <<Error("validation", 2), Error("validation", 3)>>)
    /\ run.stream = "not_called"

\* A text that is "JDL" followed by exactly six decimal digits.
IsJdlPattern(text) ==
    LET c == Chars(text) IN
    /\ Len(c) = 9
    /\ c[1] = "J" /\ c[2] = "D" /\ c[3] = "L"
    /\ \A i \in 4..9 : c[i] \in Digits

\* C15 as stated: every row that entered the reconciliation has a jdlId of
\* "JDL" and exactly six digits, a non-empty name, a participationCount >= 0,
\* a currentClass among A..E and a lastUpdated; no row with an empty name
\* is among them.
C15_ValidatedRowsMeetConstraints ==
    Reconciled =>
        \A k \in 1..Len(run.master_data) :
            LET e == run.master_data[k] IN
            /\ IsJdlPattern(e.data.jdl_id)
            /\ e.data.name # ""
            /\ e.data.participation_count >= 0
            /\ e.data.current_class \in {"A", "B", "C", "D", "E"}
            /\ e.last_updated.type = "datetime"

\* The call of an ended invocation hit one of the fatal errors the exit code
\* is to report: the snapshot file is missing, the store could not be read,
\* or an exception left sync_from_csv.
FatalRun ==
    \/ run.pc = "raised"
    \/ ~run.csv_file.exists
    \/ run.pc = "returned" /\ run.stream = "raised"

\* C16 as stated: the script exits with 0 when the run completes, row errors
\* or not, and with a non-zero code on a fatal error: a missing snapshot
\* file, a failed store read or an uncaught exception.
C16_ExitCodes ==
    script.pc = "exited" =>
        IF FatalRun THEN script.exit_code # 0 ELSE script.exit_code = 0

\* C17 as stated: an invocation whose run returned sends exactly one message
\* when errors is non-empty and an address is configured, and none when
\* errors is empty or no address is configured; the exit code is the same
\* with and without address and whether or not the send failed.
C17_OneMessagePerFailedRun ==
    (script.pc = "exited" /\ run.pc = "returned") =>
        /\ script.send_calls =
               IF run.ret.errors # <<>> /\ script.admin_email # None THEN 1 ELSE 0
        /\ script.exit_code = 0

\* C17 amended: an invocation makes at most one send: exactly one when the
\* run returned a non-empty errors list, an address is configured and the
\* mail settings are all set, and none when errors is empty, no address is
\* configured, a mail setting is unset or the run raised; the exit code is 0
\* after a returned run and 1 after a raised one, whatever the address and
\* the outcome of the send.
C17_NotificationPolicy ==
    script.pc = "exited" =>
        /\ script.send_calls =
               IF /\ run.pc = "returned"
                  /\ run.ret.errors # <<>>
                  /\ script.admin_email # None
                  /\ script.mail # "smtp_unset"
               THEN 1 ELSE 0
        /\ script.mail = "unused" <=>
               ~(run.pc = "returned" /\ run.ret.errors # <<>> /\ script.admin_email # None)
        /\ script.exit_code = IF run.pc = "raised" THEN 1 ELSE 0

\* C17 witness: two errors and an address gave one send, which failed, and
\* the script exited with 0.
C17_Witness ==
    /\ script.pc = "exited"
    /\ run.pc = "returned"
    /\ Len(run.ret.errors) = 2
    /\ script.admin_email # None
    /\ script.mail = "send_raised"
    /\ script.send_calls = 1
    /\ script.exit_code = 0

\* The kinds of the entries a failed store call adds to errors.
StoreErrorKinds == {"store_read", "batch_commit"}

\* C18: in the returned errors the row validation errors stand in ascending
\* line order, one per rejected row; a failed store read or a failed commit
\* adds one entry, which is the last one, after every row error; a run has
\* at most one such entry.
C18_ErrorsInOrder ==
    run.pc = "returned" =>
        LET E == run.ret.errors
            rowErrors == {n \in 1..Len(E) : E[n].kind = "validation"}
            storeErrors == {n \in 1..Len(E) : E[n].kind \in StoreErrorKinds}
        IN  /\ \A i, j \in rowErrors : i < j => E[i].line < E[j].line
            /\ {E[n].line : n \in rowErrors} = {k + 1 : k \in InvalidRowNos}
            /\ Cardinality(storeErrors) <= 1
            /\ \A n \in storeErrors :
                  n = Len(E) /\ \A i \in 1..(n - 1) : E[i].kind = "validation"
            /\ run.stream = "raised" <=> \E n \in storeErrors : E[n].kind = "store_read"
            /\ run.commit = "raised" <=> \E n \in storeErrors : E[n].kind = "batch_commit"

\* C18 witness: a row error followed by the entry of a failed commit.
C18_Witness ==
    /\ run.pc = "returned"
    /\ run.commit = "raised"
    /\ Len(run.ret.errors) = 2
    /\ run.ret.errors[1].kind = "validation"
    /\ run.ret.errors[2].kind = "batch_commit"

\* C19 as stated: whatever the snapshot holds and however opening the file,
\* streaming the store, staging the batch and committing it turn out, a call
\* of sync_from_csv ends by returning the tuple (updatedCount, skippedCount,
\* errors) and never with an exception.
C19_AlwaysReturnsTuple ==
    run.pc # "idle" =>
        /\ run.pc = "returned"
        /\ DOMAIN run.ret = {"updated_count", "skipped_count", "errors"}

\* The snapshots that hold the rows of a snapshot in any order.
PermsOf(rows) ==
    LET n == Len(rows)
        bijections == {q \in [1..n -> 1..n] : \A a, b \in 1..n : q[a] = q[b] => a = b}
    IN  {[k \in 1..n |-> rows[q[k]]] : q \in bijections}

\* The staged writes of a run as a set of <<record, field values>>.
StagedSet(r) == {<<r.batch[n].ref, r.batch[n].data>> : n \in 1..Len(r.batch)}

\* No two rows of the snapshot that pass validation carry the same jdlId.
DistinctValidIds(rows) ==
    \A a, b \in ValidNosOf(rows) : rows[a].jdl_id = rows[b].jdl_id => a = b

\* The run that has just returned and the run on each reordering of its
\* snapshot, against the same store and with the same outcomes of the store
\* calls, agree on updatedCount, skippedCount and the set of staged writes.
SameResultInAnyOrder ==
    \A rows \in PermsOf(run'.csv_file.rows) :
        LET other == sync_from_csv(CsvFile(rows, FALSE), store,
                                   run'.stream # "raised", TRUE,
                                   run'.commit # "raised", NowOf(run')).run
        IN  /\ other.pc = "returned"
            /\ other.ret.updated_count = run'.ret.updated_count
            /\ other.ret.skipped_count = run'.ret.skipped_count
            /\ StagedSet(other) = StagedSet(run')

\* C20 as stated: for any two snapshots that hold the same rows in another
\* order, run against the same store, updatedCount, skippedCount and the set
\* of staged writes are equal.
C20_OrderIndependent ==
    [][(run'.pc = "returned" /\ run'.csv_file.exists /\ ~run'.csv_file.broken)
          => SameResultInAnyOrder]_vars

\* C20 amended: for any two snapshots that hold the same rows in another
\* order and in which no two valid rows carry the same jdlId, run against
\* the same store, updatedCount, skippedCount and the set of staged writes
\* are equal.
C20_OrderIndependentDistinctIds ==
    [][(/\ run'.pc = "returned"
        /\ run'.csv_file.exists
        /\ ~run'.csv_file.broken
        /\ DistinctValidIds(run'.csv_file.rows))
          => SameResultInAnyOrder]_vars

\* C20 witness: a run staged the writes of two different rows with two
\* different jdlIds, which the other order stages the other way round.
C20_Witness ==
    /\ Reconciled
    /\ RowCount = 2
    /\ ValidRowNos = {1, 2}
    /\ run.csv_file.rows[1].jdl_id # run.csv_file.rows[2].jdl_id
    /\ Len(run.batch) = 2
    /\ run.batch[1].data # run.batch[2].data

\* The stored documents whose marker field is present and is no datetime.
OddMarkerDocs(db) ==
    {d \in DOMAIN db :
        /\ "jdl_id" \in DOMAIN db[d]
        /\ "last_updated_by_master" \in DOMAIN db[d]
        /\ db[d].last_updated_by_master.type # "datetime"}

\* C25: a stored record whose marker is present but is no datetime (a
\* server-timestamp sentinel, a null) is loaded with the marker None: the
\* load raises nothing and adds no error, so errors holds the row errors
\* only (and the entry of a failed commit), and a valid row with the
\* record's jdlId makes the run stage an update of the record.
C25_OddMarkerTreatedAsAbsent ==
    [][(run'.pc = "returned" /\ run'.stream = "ok") =>
          \A d \in OddMarkerDocs(store) :
              LET id == store[d].jdl_id IN
              /\ id \in DOMAIN run'.existing_players
              /\ run'.existing_players[id].id = d
              /\ run'.existing_players[id].data.last_updated_by_master = None
              /\ \A n \in 1..Len(run'.ret.errors) :
                    run'.ret.errors[n].kind \in {"validation", "batch_commit"}
              /\ id \in ValidIdsOf(run'.csv_file.rows) =>
                    \E w \in 1..Len(run'.batch) : run'.batch[w].ref = d
      ]_vars

\* C25 witness: a record whose stored marker was present and no datetime
\* was loaded with the marker None and written from a row of the snapshot.
C25_Witness ==
    /\ Reconciled
    /\ run.commit = "ok"
    /\ "JDL000001" \in DOMAIN run.existing_players
    /\ "last_updated_by_master" \in DOMAIN run.existing_players["JDL000001"].data
    /\ run.existing_players["JDL000001"].data.last_updated_by_master = None
    /\ StagedFor("doc1")
    /\ store["doc1"].last_updated_by_master.type = "datetime"

\* C26: every write staged in a run carries as updatedAt the one naive
\* wall-clock reading the run took before it reconciled any row, so all
\* writes of the run carry the same value, and that value is not the
\* lastUpdated of the master row the write comes from.
C26_OneSyncTimePerRun ==
    run.pc = "returned" =>
        /\ \A w \in 1..Len(run.batch) :
              /\ run.batch[w].data.updated_at = run.sync_time
              /\ run.batch[w].data.updated_at.type = "datetime"
              /\ ~run.batch[w].data.updated_at.aware
              /\ run.batch[w].data.updated_at # run.batch[w].data.last_updated_by_master
        /\ \A v, w \in 1..Len(run.batch) :
              run.batch[v].data.updated_at = run.batch[w].data.updated_at

\* C26 witness: two writes staged from rows with different timestamps carry
\* the same updatedAt.
C26_Witness ==
    /\ run.pc = "returned"
    /\ Len(run.batch) = 2
    /\ run.batch[1].data.last_updated_by_master # run.batch[2].data.last_updated_by_master
    /\ run.batch[1].data.updated_at = run.batch[2].data.updated_at
    /\ run.batch[1].data.updated_at = run.sync_time

\* The run read its snapshot to the end and no store call of it failed.
CleanRun ==
    /\ run.pc = "returned"
    /\ run.csv_file.exists
    /\ ~run.csv_file.broken
    /\ run.stream # "raised"
    /\ run.commit # "raised"

RowScopedErrors == {n \in 1..Len(run.ret.errors) : run.ret.errors[n].line > 0}

\* C27 as stated: in a run with a readable snapshot, a successful store
\* load and a successful commit (if any), updatedCount + skippedCount is the
\* number of data rows and errors holds as many row-scoped entries as rows
\* failed validation.
C27_CountsAddUpToRows ==
    CleanRun =>
        /\ run.ret.updated_count + run.ret.skipped_count = RowCount
        /\ Cardinality(RowScopedErrors) = Cardinality(InvalidRowNos)

\* C27 amended: in such a run updatedCount + skippedCount is the number of
\* rows that failed validation plus the number of distinct jdlIds among the
\* valid rows, which is the number of data rows when no two valid rows carry
\* the same jdlId; errors holds as many row-scoped entries as rows failed
\* validation.
C27_CountsAddUpToKeys ==
    CleanRun =>
        /\ run.ret.updated_count + run.ret.skipped_count =
               Cardinality(InvalidRowNos) + Cardinality(ValidIdsOf(run.csv_file.rows))
        /\ DistinctValidIds(run.csv_file.rows) =>
               run.ret.updated_count + run.ret.skipped_count = RowCount
        /\ Cardinality(RowScopedErrors) = Cardinality(InvalidRowNos)
        /\ Len(run.ret.errors) = Cardinality(InvalidRowNos)

\* C27 witness: a committed run on an invalid row and a valid one, with one
\* update, one skip and one error.
C27_Witness ==
    /\ CleanRun
    /\ run.commit = "ok"
    /\ RowCount = 2
    /\ Cardinality(InvalidRowNos) = 1
    /\ run.ret.updated_count = 1
    /\ run.ret.skipped_count = 1
    /\ Len(run.ret.errors) = 1

\* The last valid row, in file order, that carries the jdlId.
LastRowNo(jdl_id) ==
    LET nos == {k \in ValidRowNos : run.csv_file.rows[k].jdl_id = jdl_id}
    IN  CHOOSE k \in nos : \A j \in nos : j <= k

\* C28: of the valid rows of a snapshot that carry one jdlId only the last
\* in file order is reconciled: master_data holds one item per jdlId, made
\* from that row; at most one write is staged per record and it carries that
\* row's values and lastUpdated; the staged writes and the skips of the
\* reconciliation number the distinct jdlIds, and no valid row has an error.
C28_LastDuplicateWins ==
    Reconciled =>
        /\ \A id \in ValidIdsOf(run.csv_file.rows) :
              LET row == run.csv_file.rows[LastRowNo(id)]
                  items == {k \in 1..Len(run.master_data) : run.master_data[k].jdl_id = id}
              IN  /\ Cardinality(items) = 1
                  /\ \A k \in items :
                        LET e == run.master_data[k] IN
                        /\ e.line_num = LastRowNo(id) + 1
                        /\ e.last_updated = TimeOfCell(row.last_updated)
                        /\ e.data.name = row.player_name
                        /\ e.data.participation_count = NumberOfCell(row.participation_count)
                        /\ e.data.current_class = row.current_class
                  /\ id \in DOMAIN run.existing_players =>
                        LET writes == {w \in 1..Len(run.batch) :
                                          run.batch[w].ref = run.existing_players[id].id}
                        IN  /\ Cardinality(writes) <= 1
                            /\ \A w \in writes :
                                  /\ run.batch[w].data.last_updated_by_master
                                        = TimeOfCell(row.last_updated)
                                  /\ run.batch[w].data.name = row.player_name
                                  /\ run.batch[w].data.current_class = row.current_class
        /\ Len(run.batch) + run.ret.skipped_count - Cardinality(InvalidRowNos)
              = Cardinality(ValidIdsOf(run.csv_file.rows))
        /\ \A k \in ValidRowNos : ErrorsAtLine(k + 1) = {}

\* C28 witness: of two valid rows for one record the first has the later
\* timestamp, and the one write staged carries the timestamp of the second.
C28_Witness ==
    /\ Reconciled
    /\ RowCount = 2
    /\ ValidRowNos = {1, 2}
    /\ run.csv_file.rows[1].jdl_id = run.csv_file.rows[2].jdl_id
    /\ run.csv_file.rows[1].last_updated.suffix = run.csv_file.rows[2].last_updated.suffix
    /\ run.csv_file.rows[1].last_updated.clock > run.csv_file.rows[2].last_updated.clock
    /\ Len(run.batch) = 1
    /\ run.batch[1].data.last_updated_by_master.clock
          = run.csv_file.rows[2].last_updated.clock
    /\ run.ret.skipped_count = 0

\* The marker a stored document holds, None when it has no datetime there.
MarkerOf(doc) ==
    IF "last_updated_by_master" \in DOMAIN doc /\ doc.last_updated_by_master.type = "datetime"
    THEN doc.last_updated_by_master
    ELSE None

\* Every datetime marker of the store db and every timestamp of a valid row
\* of the snapshot has the awareness a.
SameAwareness(db, rows, a) ==
    /\ \A d \in DOMAIN db : MarkerOf(db[d]) # None => MarkerOf(db[d]).aware = a
    /\ \A k \in ValidNosOf(rows) : (rows[k].last_updated.suffix # "") = a

\* C29: no step of a sequence of runs that follow one another changes the
\* marker of a record unless it ends a run whose commit succeeded, and in a
\* run in which the stored markers and the master timestamps all have the
\* same awareness a marker is never replaced by an older value (instants for
\* aware values, readings for naive ones) and never removed.
C29_MarkerNeverDecreases ==
    [][\A d \in DOMAIN store :
          /\ d \in DOMAIN store'
          /\ MarkerOf(store'[d]) # MarkerOf(store[d]) =>
                (run'.pc = "returned" /\ run'.commit = "ok")
          /\ (/\ MarkerOf(store[d]) # None
              /\ run'.pc = "returned"
              /\ \E a \in BOOLEAN : SameAwareness(store, run'.csv_file.rows, a))
             => /\ MarkerOf(store'[d]) # None
                /\ MarkerOf(store'[d]).aware = MarkerOf(store[d]).aware
                /\ datetime_ge(MarkerOf(store'[d]), MarkerOf(store[d]))
      ]_vars

\* C29 witness: a committed run replaced the datetime marker it had loaded
\* for a record by a later one of the same awareness.
C29_Witness ==
    /\ Reconciled
    /\ run.commit = "ok"
    /\ "JDL000001" \in DOMAIN run.existing_players
    /\ LoadedMarker(run.existing_players["JDL000001"]).type = "datetime"
    /\ MarkerOf(store["doc1"]).aware = LoadedMarker(run.existing_players["JDL000001"]).aware
    /\ Newer(MarkerOf(store["doc1"]), LoadedMarker(run.existing_players["JDL000001"]))

\* The process has reconciled every item of master_data and is about to
\* commit or return.
AllReconciled(p) ==
    /\ procs[p].pc = "loaded"
    /\ procs[p].next > Len(procs[p].parsed.master_data)
    /\ Len(procs[p].rec.batch)
          + (procs[p].rec.skipped_count - procs[p].parsed.skipped_count)
          = Len(procs[p].parsed.master_data)

\* C23: a run calls commit at most once, only when it has reconciled every
\* validated row and has staged at least one write; the store changes in no
\* other step of the run, and the step of a successful commit applies the
\* whole batch of that run at once.
C23_SingleCommit ==
    /\ [](\A p \in Procs :
            /\ ghost.commits[p] <= 1
            /\ procs[p].pc \in {"idle", "parsed", "loaded", "raised"} => ghost.commits[p] = 0
            /\ procs[p].pc = "returned" =>
                  /\ (procs[p].commit = "not_called") = (ghost.commits[p] = 0)
                  /\ procs[p].commit # "not_called" => procs[p].batch # <<>>)
    /\ [][\A p \in Procs :
             ghost'.commits[p] # ghost.commits[p] =>
                 /\ AllReconciled(p)
                 /\ procs[p].rec.batch # <<>>
                 /\ procs'[p].pc = "returned"]_vars
    /\ [][store' # store =>
             \E p \in Procs :
                 /\ AllReconciled(p)
                 /\ procs'[p].pc = "returned"
                 /\ procs'[p].commit = "ok"
                 /\ ghost'.commits[p] = 1
                 /\ store' = ApplyBatch(store, procs[p].rec.batch)
                 /\ \A q \in Procs \ {p} : procs'[q] = procs[q]]_vars

\* C23 witness: a run has returned after one commit of two staged writes,
\* which are both in the store.
C23_Witness ==
    \E p \in Procs :
        /\ procs[p].pc = "returned"
        /\ procs[p].commit = "ok"
        /\ Len(procs[p].batch) = 2
        /\ ghost.commits[p] = 1
        /\ \A w \in 1..2 :
              store[procs[p].batch[w].ref].updated_at = procs[p].sync_time

\* The marker of the document d is strictly older than a value a commit put
\* there before, both of the same awareness.
LostUpdate(d) ==
    /\ MarkerOf(store[d]) # None
    /\ \E m \in ghost.committed[d] :
          /\ m.aware = MarkerOf(store[d]).aware
          /\ Newer(m, MarkerOf(store[d]))

\* The stored datetime markers and the committed values of every document
\* have one awareness.
ComparableMarkers ==
    \A d \in DOMAIN store :
        \A a, b \in ghost.committed[d]
                     \cup (IF MarkerOf(store[d]) # None THEN {MarkerOf(store[d])} ELSE {}) :
            a.aware = b.aware

\* C24: a commit that succeeds applies the batch of its run to the store as
\* it is then, whatever was committed since the run loaded its baseline; and
\* while no run has loaded its baseline between the load and the commit of
\* another, no record with comparable markers holds a marker older than a
\* value committed for it before.
C24_LostUpdateNeedsOverlap ==
    /\ []((ComparableMarkers /\ \E d \in DOMAIN store : LostUpdate(d)) => ghost.overlap)
    /\ [][\A p \in Procs :
             (procs[p].pc = "loaded" /\ procs'[p].pc = "returned"
                 /\ procs'[p].commit = "ok") =>
                 store' = ApplyBatch(store, procs[p].rec.batch)]_vars

\* C24 witness: both runs loaded before either committed, both commits were
\* applied, and the record of JDL000001 ends with a marker older than one
\* committed for it.
C24_Witness ==
    /\ ghost.overlap
    /\ \A p \in Procs :
          /\ procs[p].pc = "returned"
          /\ procs[p].commit = "ok"
    /\ ComparableMarkers
    /\ LostUpdate("doc1")

\* The step answers a call of request_class_change served by c.
RequestAnswered(c) ==
    /\ Free(c)
    /\ calls'[c] # calls[c]
    /\ calls'[c].pc = "done"
    /\ calls'[c].op = "request"

\* C21: a call of request_class_change for a player id without a player
\* document is answered with status 404, and its step adds no record to
\* class_change_history and no notification.
C21_MissingPlayer404 ==
    [][\A c \in Callers :
          (RequestAnswered(c) /\ calls'[c].player_id \notin DOMAIN store) =>
              /\ calls'[c].status_code = 404
              /\ history' = history
              /\ notifications' = notifications]_vars

\* The step commits the transaction of the approval c has checked.
ApprovalCommitted(c) == calls[c].pc = "checked" /\ calls'[c].pc = "committed"

\* C22: the step that commits the transaction of an approval by the admin u
\* leaves the history record with status 'approved' when approved is true
\* and 'rejected' when it is false, approved_by = u's uid and the comment
\* given; the player's current_class is the request's new_class when
\* approved is true, and no player document changes when it is false; a
\* call answered with 200 has gone through that step and returns these
\* values; and a record that enters the collection has status 'pending'.
C22_ApprovalSetsDecision ==
    /\ [][\A c \in Callers :
             ApprovalCommitted(c) =>
                 LET id == calls[c].history_id
                     approval == calls[c].approval
                     pid == calls[c].history_data.player_id
                 IN  /\ calls[c].current_user.role = "admin"
                     /\ calls[c].history_data.status = "pending"
                     /\ history'[id].status
                           = (IF approval.approved THEN "approved" ELSE "rejected")
                     /\ history'[id].approved_by = Str(calls[c].current_user.uid)
                     /\ history'[id].comment = approval.comment
                     /\ approval.approved =>
                           store'[pid].current_class = calls[c].history_data.new_class
                     /\ ~approval.approved => store' = store]_vars
    /\ [][\A c \in Callers :
             (calls'[c] # calls[c] /\ calls'[c].pc = "done" /\ calls'[c].op = "approve"
                 /\ calls'[c].status_code = 200) =>
                 /\ calls[c].pc = "committed"
                 /\ calls'[c].body.status
                       = (IF calls[c].approval.approved THEN "approved" ELSE "rejected")
                 /\ calls'[c].body.approved_by = Str(calls[c].current_user.uid)
                 /\ calls'[c].body.comment = calls[c].approval.comment]_vars
    /\ [][/\ Len(history') >= Len(history)
          /\ \A k \in 1..Len(history') :
                k > Len(history) =>
                    /\ history'[k].status = "pending"
                    /\ history'[k].approved_by = None
                    /\ history'[k].comment = None
          /\ \A c \in Callers :
                (RequestAnswered(c) /\ calls'[c].status_code = 201) =>
                    /\ calls'[c].body.status = "pending"
                    /\ calls'[c].body = history'[Len(history')]]_vars

\* C22 witness: of two requests one was approved and one rejected, the
\* player holds the class of the approved one, and a call has just returned
\* the rejected record.
C22_Witness ==
    /\ Len(history) = 2
    /\ \E a, r \in 1..2 :
          /\ history[a].status = "approved"
          /\ history[a].approved_by # None
          /\ history[r].status = "rejected"
          /\ store[history[a].player_id].current_class = history[a].new_class
          /\ \E c \in Callers :
                /\ calls[c].pc = "done"
                /\ calls[c].op = "approve"
                /\ calls[c].status_code = 200
                /\ calls[c].body.id = r
                /\ calls[c].body.status = "rejected"

\* C30: once the status of a history record is 'approved' or 'rejected', no
\* step changes its status, approved_by or comment, and no transaction of
\* an approval of that record changes a player document.
C30_DecidedAtMostOnce ==
    [][\A h \in 1..Len(history) :
          history[h].status \in {"approved", "rejected"} =>
              /\ h \in 1..Len(history')
              /\ history'[h].status = history[h].status
              /\ history'[h].approved_by = history[h].approved_by
              /\ history'[h].comment = history[h].comment
              /\ \A c \in Callers :
                    (ApprovalCommitted(c) /\ calls[c].history_id = h) =>
                        store' = store]_vars

====
